---- MODULE Spec2Model ----
(***************************************************************************)
(* A model of kiwimark (src/kiwimark/kiwimark.py): the KiwiMarkup          *)
(* processor, its KiwiState flags and the KiwiLineScanner classifier.      *)
(* A text line is a sequence of one-character strings; the output is a     *)
(* sequence of such lines.                                                 *)
(***************************************************************************)
EXTENDS Integers, Sequences, FiniteSets, TLC

VARIABLES
    pc,        \* where the caller / execute() stands
    lines,     \* the lines argument of the running execute() call
    i,         \* number of input lines the for-loop of execute() has read
    calls,     \* number of execute() calls made on the instance
    result,    \* the value the last completed execute() returned
    exc,       \* the exception the last execute() call raised, or "none"
    mode,      \* self.mode
    state,     \* self.state (the KiwiState instance made by __init__)
    line,      \* self.line (the KiwiLineScanner of the run)
    thisLine,  \* self.thisLine
    nextLine,  \* self.nextLine
    indents,   \* self.indents
    output,    \* self.output
    branch,    \* the branch of processLine the last line read took
    seen       \* the branches the lines of the running call have taken

vars == <<pc, lines, i, calls, result, exc, mode, state, line, thisLine,
          nextLine, indents, output, branch, seen>>

KIWI_MODE_STD == 0
KIWI_MODE_ORG == 1

\* Python's None, for thisLine / nextLine / the mode argument.
None == <<"None">>

----------------------------------------------------------------------------
(* Text helpers: what the str methods and the regular expressions do.      *)

\* The characters [\s] matches in the model's alphabet.
WS == {" ", "\t"}

Min(a, b) == IF a < b THEN a ELSE b

Take(s, n) == SubSeq(s, 1, Min(n, Len(s)))

Drop(s, n) == IF n >= Len(s) THEN <<>> ELSE SubSeq(s, n + 1, Len(s))

Spaces(n) == IF n <= 0 THEN <<>> ELSE [k \in 1..n |-> " "]

\* The least element of the set of positions S, or otherwise when S is empty.
FirstOf(S, otherwise) ==
    IF S = {} THEN otherwise ELSE CHOOSE j \in S : \A x \in S : j <= x

\* Number of consecutive characters of s, from position p on, that lie in C.
RunLen(s, p, C) ==
    IF p > Len(s) \/ p < 1 THEN 0
    ELSE FirstOf({j \in p..Len(s) : s[j] \notin C}, Len(s) + 1) - p

\* Number of consecutive characters of s, from position p on, not in C.
RunLenNot(s, p, C) ==
    IF p > Len(s) \/ p < 1 THEN 0
    ELSE FirstOf({j \in p..Len(s) : s[j] \in C}, Len(s) + 1) - p

\* t occurs in s at position p.
StartsWithAt(s, p, t) ==
    /\ p >= 1
    /\ p + Len(t) - 1 <= Len(s)
    /\ SubSeq(s, p, p + Len(t) - 1) = t

Lstrip(s) == Drop(s, RunLen(s, 1, WS))

RECURSIVE Rstrip(_)
Rstrip(s) ==
    IF s = <<>> THEN <<>>
    ELSE IF s[Len(s)] \in WS THEN Rstrip(SubSeq(s, 1, Len(s) - 1)) ELSE s

Strip(s) == Lstrip(Rstrip(s))

\* re.sub("\t", "    ", s)
RECURSIVE TabsToSpaces(_)
TabsToSpaces(s) ==
    IF s = <<>> THEN <<>>
    ELSE (IF s[1] = "\t" THEN Spaces(4) ELSE <<s[1]>>) \o TabsToSpaces(Tail(s))

\* s.split(c): the pieces of s between the occurrences of c.
RECURSIVE Split(_, _)
Split(s, c) ==
    LET n == RunLenNot(s, 1, {c})
    IN  IF n = Len(s) THEN <<s>>
        ELSE <<Take(s, n)>> \o Split(Drop(s, n + 1), c)

\* s consists of at least n copies of the character c and of nothing else.
IsRun(s, c, n) == Len(s) >= n /\ \A k \in 1..Len(s) : s[k] = c

\* "%d" of a header level.
Digits == <<"0", "1", "2", "3", "4", "5", "6", "7", "8", "9">>

FormatInt(n) == <<Digits[n + 1]>>

\* cgi.escape(s): & < > become entities.
RECURSIVE Escape(_)
Escape(s) ==
    IF s = <<>> THEN <<>>
    ELSE (CASE s[1] = "&" -> <<"&","a","m","p",";">>
            [] s[1] = "<" -> <<"&","l","t",";">>
            [] s[1] = ">" -> <<"&","g","t",";">>
            [] OTHER -> <<s[1]>>) \o Escape(Tail(s))

----------------------------------------------------------------------------
(* The patterns of the line scanner.                                       *)

\* HEADER_REGEX  ^[\s]{0,3}([#]{1,6})[\s]*([^#]*)
HeaderMatch(s) ==
    LET w == RunLen(s, 1, WS) IN w <= 3 /\ w < Len(s) /\ s[w + 1] = "#"

\* The header level as the number of all # characters, not capped at six.
HeaderHashes_Uncapped(s) == RunLen(s, RunLen(s, 1, WS) + 1, {"#"})

HeaderHashes(s) == Min(RunLen(s, RunLen(s, 1, WS) + 1, {"#"}), 6)

HeaderGroup2(s) ==
    LET afterHashes == RunLen(s, 1, WS) + HeaderHashes(s) + 1
        start == afterHashes + RunLen(s, afterHashes, WS)
    IN  SubSeq(s, start, start + RunLenNot(s, start, {"#"}) - 1)

\* LIST_REGEX  ^([\s]*)[\*][\s]+(.*)
ListMatch(s) ==
    LET w == RunLen(s, 1, WS)
    IN  /\ w + 2 <= Len(s)
        /\ s[w + 1] = "*"
        /\ s[w + 2] \in WS

ListGroup1Len(s) == RunLen(s, 1, WS)

ListGroup2(s) ==
    LET w == RunLen(s, 1, WS) IN Drop(s, w + 1 + RunLen(s, w + 2, WS))

\* TABLE_HEADER_REGEX  ^[\s]{0,3}(\||\+)*((-{3,})(\||\+))+
TableHeaderMatch(s) ==
    LET w == RunLen(s, 1, WS)
        f == RunLen(s, w + 1, {"|", "+"})
        h == RunLen(s, w + f + 1, {"-"})
    IN  /\ w <= 3
        /\ h >= 3
        /\ w + f + h + 1 <= Len(s)
        /\ s[w + f + h + 1] \in {"|", "+"}

\* CODEBLOCK_START_REGEX  ^[\s]*code:([^\s]*)[\s]*$
CodeStartMatch(s) ==
    LET w == RunLen(s, 1, WS)
        l == RunLenNot(s, w + 6, WS)
    IN  /\ StartsWithAt(s, w + 1, <<"c","o","d","e",":">>)
        /\ w + 5 + l + RunLen(s, w + 6 + l, WS) = Len(s)

CodeStartGroup1(s) ==
    LET w == RunLen(s, 1, WS)
    IN  SubSeq(s, w + 6, w + 5 + RunLenNot(s, w + 6, WS))

\* CODEBLOCK_END_REGEX  ^[\s]*:code[\s]*$
CodeEndMatch(s) ==
    LET w == RunLen(s, 1, WS)
    IN  /\ StartsWithAt(s, w + 1, <<":","c","o","d","e">>)
        /\ w + 5 + RunLen(s, w + 6, WS) = Len(s)

\* The underline patterns of check_for_header:  ^={5,}=+$  and  ^-{5,}-+$
SetextH1Match(s) == IsRun(s, "=", 5 + 1)

SetextH2Match(s) == IsRun(s, "-", 5 + 1)

\* The horizontal-line pattern with one more hyphen required.
HorizontalLineMatch_Seven(s) == IsRun(s, "-", 5 + 2)

\* The pattern of check_for_horizontal_line:  ^[-]{5}[-]+$
HorizontalLineMatch(s) == IsRun(s, "-", 5 + 1)

----------------------------------------------------------------------------
(* KiwiState and KiwiLineScanner.                                          *)

\* A new KiwiState: the class attributes.
KiwiState ==
    [inParagraph |-> FALSE, inTable |-> FALSE, inList |-> FALSE,
     inBlock |-> FALSE, inOrgSection |-> FALSE, inCodeSection |-> FALSE]

\* A new KiwiLineScanner: the class attributes, and the fields reset() adds.
KiwiLineScanner ==
    [isParagraph |-> TRUE, isHeader |-> FALSE, isList |-> FALSE,
     isTable |-> FALSE, isTableHeader |-> FALSE, isBlankLine |-> FALSE,
     isBlock |-> FALSE, isHorizontalLine |-> FALSE, isOrgHeader |-> FALSE,
     isCodeStart |-> FALSE, isCodeEnd |-> FALSE,
     skipNextLine |-> FALSE,
     headerLevel |-> 0, headerText |-> <<>>,
     listIndent |-> 0, listText |-> <<>>, isNestedList |-> FALSE,
     codeLanguage |-> <<>>, tableColumns |-> <<>>,
     raised |-> "none"]

\* reset() that keeps isTableHeader of the line before.
reset_KeepTableHeader(L) ==
    [L EXCEPT !.isParagraph = TRUE, !.isHeader = FALSE, !.isList = FALSE,
              !.isTable = FALSE,
              !.isBlankLine = FALSE, !.isBlock = FALSE,
              !.isOrgHeader = FALSE, !.isCodeStart = FALSE,
              !.isCodeEnd = FALSE, !.skipNextLine = FALSE,
              !.headerLevel = 0, !.headerText = <<>>,
              !.listIndent = 0, !.listText = <<>>, !.isNestedList = FALSE,
              !.codeLanguage = <<>>, !.tableColumns = <<>>]

\* KiwiLineScanner.reset: every field but isHorizontalLine is set again.
reset(L) ==
    [L EXCEPT !.isParagraph = TRUE, !.isHeader = FALSE, !.isList = FALSE,
              !.isTable = FALSE, !.isTableHeader = FALSE,
              !.isBlankLine = FALSE, !.isBlock = FALSE,
              !.isOrgHeader = FALSE, !.isCodeStart = FALSE,
              !.isCodeEnd = FALSE, !.skipNextLine = FALSE,
              !.headerLevel = 0, !.headerText = <<>>,
              !.listIndent = 0, !.listText = <<>>, !.isNestedList = FALSE,
              !.codeLanguage = <<>>, !.tableColumns = <<>>]

\* check_for_header() that forgets skipNextLine under a line of = characters.
check_for_header_NoSkip(L, this, next) ==
    IF HeaderMatch(this)
    THEN [L EXCEPT !.isParagraph = FALSE, !.isHeader = TRUE,
                   !.headerLevel = HeaderHashes(this),
                   !.headerText = HeaderGroup2(this)]
    ELSE IF SetextH1Match(next)
    THEN [L EXCEPT !.isParagraph = FALSE, !.isHeader = TRUE,
                   !.headerLevel = 1, !.headerText = this]
    ELSE IF SetextH2Match(next)
    THEN [L EXCEPT !.isParagraph = FALSE, !.isHeader = TRUE,
                   !.skipNextLine = TRUE, !.headerLevel = 2,
                   !.headerText = this]
    ELSE L

check_for_header(L, this, next) ==
    IF HeaderMatch(this)
    THEN [L EXCEPT !.isParagraph = FALSE, !.isHeader = TRUE,
                   !.headerLevel = HeaderHashes(this),
                   !.headerText = HeaderGroup2(this)]
    ELSE IF SetextH1Match(next)
    THEN [L EXCEPT !.isParagraph = FALSE, !.isHeader = TRUE,
                   !.skipNextLine = TRUE, !.headerLevel = 1,
                   !.headerText = this]
    ELSE IF SetextH2Match(next)
    THEN [L EXCEPT !.isParagraph = FALSE, !.isHeader = TRUE,
                   !.skipNextLine = TRUE, !.headerLevel = 2,
                   !.headerText = this]
    ELSE L

check_for_table(L, this, next, st) ==
    LET L1 == IF TableHeaderMatch(next)
              THEN [L EXCEPT !.isTable = TRUE, !.isTableHeader = TRUE,
                             !.skipNextLine = TRUE]
              ELSE L
        pieces == Split(this, "|")
        columns == [k \in 1..Len(pieces) |-> Strip(pieces[k])]
        L2 == [L1 EXCEPT !.tableColumns = columns]
    IN  IF Len(columns) >= 3 \/ (Len(columns) > 0 /\ st.inTable)
        THEN [L2 EXCEPT !.isTable = TRUE]
        ELSE L2

check_for_block(L, this, st) ==
    IF Take(this, 4) = Spaces(4) /\ ~st.inTable
    THEN [L EXCEPT !.isParagraph = FALSE, !.isBlock = TRUE]
    ELSE L

check_for_list(L, this, next, st) ==
    IF ListMatch(this) /\ ~st.inBlock
    THEN LET L1 == [L EXCEPT !.isParagraph = FALSE, !.isList = TRUE,
                             !.listIndent = ListGroup1Len(this),
                             !.listText = ListGroup2(this)]
         IN  IF ListMatch(next)
             THEN [L1 EXCEPT !.isNestedList =
                                 ListGroup1Len(next) > L1.listIndent]
             ELSE L1
    ELSE L

check_for_horizontal_line(L, this) ==
    IF HorizontalLineMatch(this)
    THEN [L EXCEPT !.isParagraph = FALSE, !.isHorizontalLine = TRUE]
    ELSE L

\* An org-header only when the asterisk is the first character of the line.
check_for_org_header_Unindented(L, this) ==
    IF Strip(this) = <<>>
    THEN [L EXCEPT !.raised = "IndexError"]
    ELSE IF this[1] = "*"
    THEN [L EXCEPT !.isParagraph = FALSE, !.isOrgHeader = TRUE]
    ELSE L

\* thisLine.strip()[0] raises IndexError on a line that strips to "".
check_for_org_header(L, this) ==
    IF Strip(this) = <<>>
    THEN [L EXCEPT !.raised = "IndexError"]
    ELSE IF Strip(this)[1] = "*"
    THEN [L EXCEPT !.isParagraph = FALSE, !.isOrgHeader = TRUE]
    ELSE L

check_for_code_start(L, this) ==
    IF CodeStartMatch(this)
    THEN [L EXCEPT !.isCodeStart = TRUE, !.codeLanguage = CodeStartGroup1(this)]
    ELSE L

check_for_code_end(L, this) ==
    IF CodeEndMatch(this)
    THEN [L EXCEPT !.isCodeEnd = TRUE, !.codeLanguage = <<>>]
    ELSE L

\* scan() with the org-header check outside the test for a blank line.
scan_OrgCheckOnBlank(L, this, next, st, md) ==
    LET L0 == reset(L)
        L8 == IF Strip(this) = <<>>
              THEN [L0 EXCEPT !.isBlankLine = TRUE, !.isParagraph = FALSE]
              ELSE check_for_code_end(check_for_code_start(
                       check_for_horizontal_line(check_for_list(
                           check_for_block(check_for_table(
                               check_for_header(L0, this, next),
                               this, next, st), this, st),
                           this, next, st), this), this), this)
    IN  IF md = KIWI_MODE_ORG THEN check_for_org_header(L8, this) ELSE L8

\* KiwiLineScanner.scan (the scanner's mode is the mode of the run).
scan(L, this, next, st, md) ==
    LET L0 == reset(L)
    IN  IF Strip(this) = <<>>
        THEN [L0 EXCEPT !.isBlankLine = TRUE, !.isParagraph = FALSE]
        ELSE LET L1 == check_for_header(L0, this, next)
                 L2 == check_for_table(L1, this, next, st)
                 L3 == check_for_block(L2, this, st)
                 L4 == check_for_list(L3, this, next, st)
                 L5 == check_for_horizontal_line(L4, this)
                 L6 == check_for_code_start(L5, this)
                 L7 == check_for_code_end(L6, this)
             IN  IF md = KIWI_MODE_ORG
                 THEN check_for_org_header(L7, this)
                 ELSE L7

----------------------------------------------------------------------------
(* The inline substitutions. A pattern's match at position k of s is the   *)
(* record of the position of its last character and of the text that       *)
(* replaces it; end = 0 says the pattern does not match at k.              *)

NoMatch == [end |-> 0, rep |-> <<>>]

At(s, k) == IF k >= 1 /\ k <= Len(s) THEN s[k] ELSE ""

NonSpaceAt(s, k) == k >= 1 /\ k <= Len(s) /\ s[k] \notin WS

\* BOLD_START_REGEX  (^|[\[\]\s]| _)(\*\*)([^\s])   ->   \1<b>\3
BoldStartAt(s, k) ==
    IF k = 1 /\ StartsWithAt(s, 1, <<"*","*">>) /\ NonSpaceAt(s, 3)
    THEN [end |-> 3, rep |-> <<"<","b",">", s[3]>>]
    ELSE IF /\ At(s, k) \in {"[", "]"} \cup WS
            /\ StartsWithAt(s, k + 1, <<"*","*">>)
            /\ NonSpaceAt(s, k + 3)
    THEN [end |-> k + 3, rep |-> <<s[k], "<","b",">", s[k + 3]>>]
    ELSE IF /\ StartsWithAt(s, k, <<" ","_","*","*">>)
            /\ NonSpaceAt(s, k + 4)
    THEN [end |-> k + 4, rep |-> <<" ","_","<","b",">", s[k + 4]>>]
    ELSE NoMatch

\* [\):;.,?\[\]\s]
BoldEndClass == {")", ":", ";", ".", ",", "?", "[", "]"} \cup WS

\* BOLD_END_REGEX  ([^\s])(\*\*)(_ |[\):;.,?\[\]\s]+|$)   ->   \1</b>\3
BoldEndAt(s, k) ==
    IF NonSpaceAt(s, k) /\ StartsWithAt(s, k + 1, <<"*","*">>)
    THEN LET r == RunLen(s, k + 3, BoldEndClass)
         IN  IF StartsWithAt(s, k + 3, <<"_"," ">>)
             THEN [end |-> k + 4,
                   rep |-> <<s[k], "<","/","b",">", "_", " ">>]
             ELSE IF r >= 1
             THEN [end |-> k + 2 + r,
                   rep |-> <<s[k], "<","/","b",">">>
                           \o SubSeq(s, k + 3, k + 2 + r)]
             ELSE IF k + 2 = Len(s)
             THEN [end |-> k + 2, rep |-> <<s[k], "<","/","b",">">>]
             ELSE NoMatch
    ELSE NoMatch

\* EMPH_START_REGEX  (^|[\[\]\s\"]|<b>)(_)([^\s])   ->   \1<i>\3
EmphStartAt(s, k) ==
    IF k = 1 /\ At(s, 1) = "_" /\ NonSpaceAt(s, 2)
    THEN [end |-> 2, rep |-> <<"<","i",">", s[2]>>]
    ELSE IF /\ At(s, k) \in {"[", "]", "\""} \cup WS
            /\ At(s, k + 1) = "_"
            /\ NonSpaceAt(s, k + 2)
    THEN [end |-> k + 2, rep |-> <<s[k], "<","i",">", s[k + 2]>>]
    ELSE IF /\ StartsWithAt(s, k, <<"<","b",">","_">>)
            /\ NonSpaceAt(s, k + 4)
    THEN [end |-> k + 4, rep |-> <<"<","b",">","<","i",">", s[k + 4]>>]
    ELSE NoMatch

\* [\):;.,?\"\[\]\s]
EmphEndClass == BoldEndClass \cup {"\""}

\* EMPH_END_REGEX  ([^\s])(_)(<\/b>|[\):;.,?\"\[\]\s]+|$)   ->   \1</i>\3
EmphEndAt(s, k) ==
    IF NonSpaceAt(s, k) /\ At(s, k + 1) = "_"
    THEN LET r == RunLen(s, k + 2, EmphEndClass)
         IN  IF StartsWithAt(s, k + 2, <<"<","/","b",">">>)
             THEN [end |-> k + 5,
                   rep |-> <<s[k], "<","/","i",">", "<","/","b",">">>]
             ELSE IF r >= 1
             THEN [end |-> k + 1 + r,
                   rep |-> <<s[k], "<","/","i",">">>
                           \o SubSeq(s, k + 2, k + 1 + r)]
             ELSE IF k + 1 = Len(s)
             THEN [end |-> k + 1, rep |-> <<s[k], "<","/","i",">">>]
             ELSE NoMatch
    ELSE NoMatch

\* The groups of  \[([^]]*)\]\(([^\)]*)\)  matched with its "[" at k:
\* g1 the bracketed text, g2 the parenthesised one; end = 0 on no match.
BracketParenAt(s, k) ==
    LET n1 == RunLenNot(s, k + 1, {"]"})
        n2 == RunLenNot(s, k + 3 + n1, {")"})
    IN  IF /\ At(s, k) = "["
           /\ StartsWithAt(s, k + 1 + n1, <<"]","(">>)
           /\ At(s, k + 3 + n1 + n2) = ")"
        THEN [end |-> k + 3 + n1 + n2,
              g1 |-> SubSeq(s, k + 1, k + n1),
              g2 |-> SubSeq(s, k + 3 + n1, k + 2 + n1 + n2)]
        ELSE [end |-> 0, g1 |-> <<>>, g2 |-> <<>>]

\* MD_IMG_REGEX  !\[([^]]*)\]\(([^\)]*)\)
\*   ->   <img src='\2' alt='\1' title='\1'/>
MdImgReplace(m) ==
    IF m.end > 0
    THEN [end |-> m.end,
          rep |-> <<"<","i","m","g"," ","s","r","c","=","'">> \o m.g2
                  \o <<"'"," ","a","l","t","=","'">> \o m.g1
                  \o <<"'"," ","t","i","t","l","e","=","'">> \o m.g1
                  \o <<"'","/",">">>]
    ELSE NoMatch

MdImgAt(s, k) ==
    IF At(s, k) = "!" THEN MdImgReplace(BracketParenAt(s, k + 1)) ELSE NoMatch

\* MD_URL_REGEX  \[([^]]*)\]\(([^\)]*)\)   ->   <a href='\2'>\1</a>
MdUrlReplace(m) ==
    IF m.end > 0
    THEN [end |-> m.end,
          rep |-> <<"<","a"," ","h","r","e","f","=","'">> \o m.g2
                  \o <<"'",">">> \o m.g1 \o <<"<","/","a",">">>]
    ELSE NoMatch

MdUrlAt(s, k) == MdUrlReplace(BracketParenAt(s, k))

NoExtended == [end |-> 0, g3 |-> <<>>, g6 |-> <<>>, g7 |-> <<>>]

\* \]\(([^\)]*)\)  at r, after the class g3 and the alt text g6.
ExtendedPathAt(s, r, g3, g6) ==
    IF /\ StartsWithAt(s, r, <<"]","(">>)
       /\ At(s, r + 2 + RunLenNot(s, r + 2, {")"})) = ")"
    THEN [end |-> r + 2 + RunLenNot(s, r + 2, {")"}), g3 |-> g3, g6 |-> g6,
          g7 |-> SubSeq(s, r + 2, r + 1 + RunLenNot(s, r + 2, {")"}))]
    ELSE NoExtended

\* (()|:([^\]]*))  at q, after the class g3.
ExtendedAltAt(s, q, g3) ==
    IF At(s, q) = ":"
    THEN ExtendedPathAt(s, q + 1 + RunLenNot(s, q + 1, {"]"}), g3,
                        SubSeq(s, q + 1, q + RunLenNot(s, q + 1, {"]"})))
    ELSE ExtendedPathAt(s, q, g3, <<>>)

\* The alt text taken only when a class precedes it: without the class the
\* ":" is not looked for.
ExtendedClassAt_AltNeedsClass(s, p) ==
    IF At(s, p) = "."
    THEN ExtendedAltAt(s, p + 1 + RunLenNot(s, p + 1, {"]", ":"}),
                       SubSeq(s, p + 1, p + RunLenNot(s, p + 1, {"]", ":"})))
    ELSE ExtendedPathAt(s, p, <<>>, <<>>)

\* (()|\.([^\]:]*))  at p.
ExtendedClassAt(s, p) ==
    IF At(s, p) = "."
    THEN ExtendedAltAt(s, p + 1 + RunLenNot(s, p + 1, {"]", ":"}),
                       SubSeq(s, p + 1, p + RunLenNot(s, p + 1, {"]", ":"})))
    ELSE ExtendedAltAt(s, p, <<>>)

\* The groups 3, 6 and 7 of IMG_REGEX, AUDIO_REGEX and LINK_REGEX
\*   \[kw(()|\.([^\]:]*))(()|:([^\]]*))\]\(([^\)]*)\)
\* matched with the "[" at k; a group that took no part in the match is ""
\* (the _m wrapper of re_sub).
ExtendedAt(s, k, kw) ==
    IF At(s, k) = "[" /\ StartsWithAt(s, k + 1, kw)
    THEN ExtendedClassAt(s, k + 1 + Len(kw))
    ELSE NoExtended

\* re_sub(imgPattern, "<img src='\7' class='\3' alt='\6' title='\6'/>", .)
ImgReplace(m) ==
    IF m.end > 0
    THEN [end |-> m.end,
          rep |-> <<"<","i","m","g"," ","s","r","c","=","'">> \o m.g7
                  \o <<"'"," ","c","l","a","s","s","=","'">> \o m.g3
                  \o <<"'"," ","a","l","t","=","'">> \o m.g6
                  \o <<"'"," ","t","i","t","l","e","=","'">> \o m.g6
                  \o <<"'","/",">">>]
    ELSE NoMatch

ImgAt(s, k) == ImgReplace(ExtendedAt(s, k, <<"i","m","g">>))

\* re_sub(audioPattern, "<audio width='300px' height='32px' src='\7'
\*   class='\3' controls='controls'> Your browser ... </audio>", .)
AudioReplace(m) ==
    IF m.end > 0
    THEN [end |-> m.end,
          rep |-> <<"<","a","u","d","i","o"," ","w","i","d","t","h","=","'","3","0","0","p","x","'"," ","h","e","i","g","h","t","=","'","3","2","p","x","'"," ","s","r","c","=","'">>
                  \o m.g7
                  \o <<"'"," ","c","l","a","s","s","=","'">> \o m.g3
                  \o <<"'"," ","c","o","n","t","r","o","l","s","=","'","c","o","n","t","r","o","l","s","'",">"," ","Y","o","u","r"," ","b","r","o","w","s","e","r"," ","d","o","e","s"," ","n","o","t"," ","s","u","p","p","o","r","t"," ","a","u","d","i","o"," ","p","l","a","y","b","a","c","k","."," ","<","/","a","u","d","i","o",">">>]
    ELSE NoMatch

AudioAt(s, k) == AudioReplace(ExtendedAt(s, k, <<"a","u","d","i","o">>))

\* re_sub(linkPattern, "<a href='\7' class='\3' alt='\6'>\6</a>", .)
LinkReplace(m) ==
    IF m.end > 0
    THEN [end |-> m.end,
          rep |-> <<"<","a"," ","h","r","e","f","=","'">> \o m.g7
                  \o <<"'"," ","c","l","a","s","s","=","'">> \o m.g3
                  \o <<"'"," ","a","l","t","=","'">> \o m.g6
                  \o <<"'",">">> \o m.g6 \o <<"<","/","a",">">>]
    ELSE NoMatch

LinkAt(s, k) == LinkReplace(ExtendedAt(s, k, <<"l","i","n","k">>))

\* ORG_URL_REGEX  \[\[([^]]*)\]\[([^]]*)\]\]   ->   <a href='\1'>\2</a>
OrgUrlAt(s, k) ==
    LET n1 == RunLenNot(s, k + 2, {"]"})
        n2 == RunLenNot(s, k + 4 + n1, {"]"})
    IN  IF /\ StartsWithAt(s, k, <<"[","[">>)
           /\ StartsWithAt(s, k + 2 + n1, <<"]","[">>)
           /\ StartsWithAt(s, k + 4 + n1 + n2, <<"]","]">>)
        THEN [end |-> k + 5 + n1 + n2,
              rep |-> <<"<","a"," ","h","r","e","f","=","'">>
                      \o SubSeq(s, k + 2, k + 1 + n1) \o <<"'",">">>
                      \o SubSeq(s, k + 4 + n1, k + 3 + n1 + n2)
                      \o <<"<","/","a",">">>]
        ELSE NoMatch

DigitChars == {"0", "1", "2", "3", "4", "5", "6", "7", "8", "9"}

\* FOOTNOTE_TARGET_REGEX  \[\^([0-9]+)\]:
\*   ->   \1. <a name='footnote_target_\1' href='#footnote_ref_\1'>...</a>
FootnoteTargetAt(s, k) ==
    LET d == RunLen(s, k + 2, DigitChars)
        n == SubSeq(s, k + 2, k + 1 + d)
    IN  IF /\ StartsWithAt(s, k, <<"[","^">>)
           /\ d >= 1
           /\ StartsWithAt(s, k + 2 + d, <<"]",":">>)
        THEN [end |-> k + 3 + d,
              rep |-> n \o <<"."," ","<","a"," ","n","a","m","e","=","'","f","o","o","t","n","o","t","e","_","t","a","r","g","e","t","_">>
                      \o n \o <<"'"," ","h","r","e","f","=","'","#","f","o","o","t","n","o","t","e","_","r","e","f","_">>
                      \o n \o <<"'",">","&","#","1","6","0",";","&","#","8","6","1","7",";","<","/","a",">">>]
        ELSE NoMatch

\* FOOTNOTE_REGEX  \[\^([0-9]+)\]
\*   ->   <a name='footnote_ref_\1' href='#footnote_target_\1'>[<sup>\1</sup>]</a>
FootnoteAt(s, k) ==
    LET d == RunLen(s, k + 2, DigitChars)
        n == SubSeq(s, k + 2, k + 1 + d)
    IN  IF /\ StartsWithAt(s, k, <<"[","^">>)
           /\ d >= 1
           /\ At(s, k + 2 + d) = "]"
        THEN [end |-> k + 2 + d,
              rep |-> <<"<","a"," ","n","a","m","e","=","'","f","o","o","t","n","o","t","e","_","r","e","f","_">>
                      \o n \o <<"'"," ","h","r","e","f","=","'","#","f","o","o","t","n","o","t","e","_","t","a","r","g","e","t","_">>
                      \o n \o <<"'",">","[","<","s","u","p",">">>
                      \o n \o <<"<","/","s","u","p",">","]","<","/","a",">">>]
        ELSE NoMatch

MatchAt(pat, s, k) ==
    CASE pat = "boldStart" -> BoldStartAt(s, k)
      [] pat = "boldEnd" -> BoldEndAt(s, k)
      [] pat = "emphStart" -> EmphStartAt(s, k)
      [] pat = "emphEnd" -> EmphEndAt(s, k)
      [] pat = "mdImg" -> MdImgAt(s, k)
      [] pat = "img" -> ImgAt(s, k)
      [] pat = "audio" -> AudioAt(s, k)
      [] pat = "link" -> LinkAt(s, k)
      [] pat = "mdUrl" -> MdUrlAt(s, k)
      [] pat = "orgmodeUrl" -> OrgUrlAt(s, k)
      [] pat = "footnoteTarget" -> FootnoteTargetAt(s, k)
      [] pat = "footnote" -> FootnoteAt(s, k)

\* pattern.sub(replacement, s) from position k on: the leftmost match is
\* replaced and the search goes on after it.
RECURSIVE SubFrom(_, _, _)
SubStep(pat, s, k, j, m) ==
    SubSeq(s, k, j - 1) \o m.rep \o SubFrom(pat, s, m.end + 1)

SubNext(pat, s, k, j) ==
    IF j = 0 THEN SubSeq(s, k, Len(s))
    ELSE SubStep(pat, s, k, j, MatchAt(pat, s, j))

SubFrom(pat, s, k) ==
    IF k > Len(s) THEN <<>>
    ELSE SubNext(pat, s, k,
                 FirstOf({j \in k..Len(s) : MatchAt(pat, s, j).end > 0}, 0))

Sub(pat, s) == SubFrom(pat, s, 1)

\* The passes of applyInlineMarkup, in the order of its statements.
BoldPasses == <<"boldStart", "boldEnd">>

\* The passes with the footnote pass before the footnote-target pass.
OtherPasses_FootnoteFirst ==
    <<"emphStart", "emphEnd", "mdImg", "img", "audio", "link", "mdUrl",
      "orgmodeUrl", "footnote", "footnoteTarget">>

OtherPasses ==
    <<"emphStart", "emphEnd", "mdImg", "img", "audio", "link", "mdUrl",
      "orgmodeUrl", "footnoteTarget", "footnote">>

RECURSIVE ApplyPasses(_, _)
ApplyPasses(passes, text) ==
    IF passes = <<>> THEN text
    ELSE LET substituted == CHOOSE t \in {Sub(Head(passes), text)} : TRUE
         IN  ApplyPasses(Tail(passes), substituted)

\* applyInlineMarkup() with the emphasis passes before the bold passes.
applyInlineMarkup_EmphasisFirst(isOrgHeader, text) ==
    ApplyPasses(IF ~isOrgHeader
                THEN <<"emphStart", "emphEnd">> \o BoldPasses
                     \o SubSeq(OtherPasses, 3, Len(OtherPasses))
                ELSE OtherPasses,
                text)

\* KiwiMarkup.applyInlineMarkup, isOrgHeader being self.line.isOrgHeader.
applyInlineMarkup(isOrgHeader, text) ==
    ApplyPasses(IF ~isOrgHeader THEN BoldPasses \o OtherPasses ELSE OtherPasses,
                text)

----------------------------------------------------------------------------
(* KiwiMarkup. K is the instance: the record of its attributes.            *)

Emit(K, l) == [K EXCEPT !.output = Append(@, l)]

startParagraph(K) ==
    IF ~K.state.inParagraph
    THEN [Emit(K, <<"<","p",">">>) EXCEPT !.state.inParagraph = TRUE]
    ELSE K

endParagraph(K) ==
    IF K.state.inParagraph
    THEN [Emit(K, <<"<","/","p",">">>) EXCEPT !.state.inParagraph = FALSE]
    ELSE K

startBlock(K) ==
    IF ~K.state.inBlock
    THEN [Emit(K, <<"<","p","r","e",">">>) EXCEPT !.state.inBlock = TRUE]
    ELSE K

endBlock(K) ==
    IF K.state.inBlock
    THEN [Emit(K, <<"<","/","p","r","e",">">>) EXCEPT !.state.inBlock = FALSE]
    ELSE K

\* "    " * (len(self.indents) - 1 + increment)
listIndent(K, increment) == Spaces(4 * (Len(K.indents) - 1 + increment))

RECURSIVE endNestedList(_)
endNestedList(K) ==
    IF Len(K.indents) > 0 /\ K.line.listIndent < K.indents[Len(K.indents)]
    THEN LET K1 == Emit(K, listIndent(K, 1) \o <<"<","/","u","l",">">>)
             K2 == Emit(K1, listIndent(K1, 0) \o <<"<","/","l","i",">">>)
         IN  endNestedList(
                 [K2 EXCEPT !.indents = SubSeq(@, 1, Len(@) - 1)])
    ELSE K

\* startList() opening a sub-list also for a line of the indent of the list.
startList_NestedOnEqual(K) ==
    LET top == K.indents[Len(K.indents)]
        nested == Len(K.indents) > 0 /\ K.line.listIndent >= top
        K1 == IF Len(K.indents) > 0 /\ ~nested /\ K.line.listIndent < top
              THEN endNestedList(K)
              ELSE K
    IN  IF nested \/ ~K1.state.inList
        THEN LET K2 == endParagraph(
                           [K1 EXCEPT !.indents = Append(@, K.line.listIndent)])
                 K3 == Emit(K2, listIndent(K2, IF nested THEN 1 ELSE 0)
                                \o <<"<","u","l",">">>)
             IN  [K3 EXCEPT !.state.inList = TRUE]
        ELSE K1

startList(K) ==
    LET top == K.indents[Len(K.indents)]
        nested == Len(K.indents) > 0 /\ K.line.listIndent > top
        K1 == IF Len(K.indents) > 0 /\ ~nested /\ K.line.listIndent < top
              THEN endNestedList(K)
              ELSE K
    IN  IF nested \/ ~K1.state.inList
        THEN LET K2 == endParagraph(
                           [K1 EXCEPT !.indents = Append(@, K.line.listIndent)])
                 K3 == Emit(K2, listIndent(K2, IF nested THEN 1 ELSE 0)
                                \o <<"<","u","l",">">>)
             IN  [K3 EXCEPT !.state.inList = TRUE]
        ELSE K1

endList(K) ==
    IF K.state.inList
    THEN LET K1 == IF Len(K.indents) > 0 THEN endNestedList(K) ELSE K
         IN  IF Len(K1.indents) = 0
             THEN [Emit(K1, listIndent(K1, 0) \o <<"<","/","u","l",">">>)
                      EXCEPT !.state.inList = FALSE]
             ELSE K1
    ELSE K

\* The while loop of endAllLists.
RECURSIVE closeSublists(_)
closeSublists(K) ==
    IF Len(K.indents) > 0
    THEN LET K1 == Emit(K, listIndent(K, 1) \o <<"<","/","u","l",">">>)
             K2 == Emit(K1, listIndent(K1, 0) \o <<"<","/","l","i",">">>)
         IN  closeSublists([K2 EXCEPT !.indents = SubSeq(@, 1, Len(@) - 1)])
    ELSE K

\* endAllLists closing the sub-lists only, the list staying open.
endAllLists_SublistsOnly(K) == closeSublists(K)

endAllLists(K) == endList(closeSublists(K))

startTable(K) ==
    IF ~K.state.inTable
    THEN [Emit(K, <<"<","t","a","b","l","e",">">>) EXCEPT !.state.inTable = TRUE]
    ELSE K

endTable(K) ==
    IF K.state.inTable
    THEN [Emit(K, <<"<","/","t","a","b","l","e",">">>)
             EXCEPT !.state.inTable = FALSE]
    ELSE K

startOrgSection(K) ==
    IF ~K.state.inOrgSection
    THEN [Emit(K, <<"<","p",">">>) EXCEPT !.state.inOrgSection = TRUE]
    ELSE K

endOrgSection(K) ==
    IF K.state.inOrgSection
    THEN [Emit(K, <<"<","/","p",">">>) EXCEPT !.state.inOrgSection = FALSE]
    ELSE K

startCodeSection(K) ==
    IF ~K.state.inCodeSection
    THEN [Emit(Emit(K, <<"<","p","r","e",">">>), <<"<","c","o","d","e",">">>)
             EXCEPT !.state.inCodeSection = TRUE]
    ELSE K

endCodeSection(K) ==
    IF K.state.inCodeSection
    THEN [Emit(Emit(K, <<"<","/","c","o","d","e",">">>),
               <<"<","/","p","r","e",">">>)
             EXCEPT !.state.inCodeSection = FALSE]
    ELSE K

\* endAllSections() with the endTable() call left out.
endAllSections_NoEndTable(K) ==
    endParagraph(endAllLists(endBlock(endOrgSection(K))))

endAllSections(K) ==
    endParagraph(endTable(endAllLists(endBlock(endOrgSection(K)))))

\* addListLine() closing the LI tag of every item, nested list or not.
addListLine_AlwaysClosed(K) ==
    LET K1 == startList(K)
    IN  [K1 EXCEPT !.thisLine =
            listIndent(K1, 1) \o <<"<","l","i",">">> \o K1.line.listText
            \o <<"<","/","l","i",">">>]

addListLine(K) ==
    LET K1 == startList(K)
    IN  [K1 EXCEPT !.thisLine =
            listIndent(K1, 1) \o <<"<","l","i",">">> \o K1.line.listText
            \o (IF K1.line.isNestedList THEN <<>> ELSE <<"<","/","l","i",">">>)]

\* The for loop of the table branch of processLine: one cell per column.
RECURSIVE emitColumns(_, _)
emitColumns(K, k) ==
    IF k > Len(K.line.tableColumns) THEN K
    ELSE LET column == applyInlineMarkup(K.line.isOrgHeader,
                                         K.line.tableColumns[k])
         IN  emitColumns(
                 Emit(K, IF K.line.isTableHeader
                         THEN <<" "," "," "," "," "," "," "," ","<","t","h",">">>
                              \o column \o <<"<","/","t","h",">">>
                         ELSE <<" "," "," "," "," "," "," "," ","<","t","d",">">>
                              \o column \o <<"<","/","t","d",">">>),
                 k + 1)

\* The branch of the if / elif chain of processLine the scanned line takes.
Branch(K) ==
    IF K.mode = KIWI_MODE_ORG /\ K.line.isOrgHeader THEN "orgHeader"
    ELSE IF K.line.isCodeStart THEN "codeStart"
    ELSE IF K.line.isCodeEnd THEN "codeEnd"
    ELSE IF K.state.inCodeSection THEN "inCode"
    ELSE IF K.line.isList THEN "list"
    ELSE IF K.line.isBlock THEN "block"
    ELSE IF K.line.isTable THEN "table"
    ELSE IF K.line.isHeader THEN "header"
    ELSE IF K.line.isHorizontalLine THEN "horizontalLine"
    ELSE IF K.line.isParagraph THEN "paragraph"
    ELSE IF K.line.isBlankLine THEN "blank"
    ELSE "none"

\* What the taken branch does; includeLine is the second component.
dispatch(K) ==
    LET b == Branch(K)
    IN  CASE b = "orgHeader" ->
             <<[startOrgSection(K) EXCEPT
                   !.thisLine = K.thisLine \o <<"<","b","r","/",">">>], TRUE>>
          [] b = "codeStart" ->
             <<startCodeSection(endAllSections(K)), FALSE>>
          [] b = "codeEnd" -> <<endCodeSection(K), FALSE>>
          [] b = "inCode" -> <<K, TRUE>>
          [] b = "list" ->
             <<addListLine(endParagraph(endTable(endBlock(endOrgSection(K))))),
               TRUE>>
          [] b = "block" ->
             <<startBlock(endParagraph(endTable(endAllLists(
                   endOrgSection(K))))), TRUE>>
          [] b = "table" ->
             LET K1 == startTable(endParagraph(endAllLists(endBlock(
                           endOrgSection(K)))))
                 K2 == Emit(K1, <<" "," "," "," ","<","t","r",">">>)
                 K3 == emitColumns(K2, 1)
             IN  <<Emit(K3, <<" "," "," "," ","<","/","t","r",">">>), FALSE>>
          [] b = "header" ->
             <<[endAllSections(K) EXCEPT
                   !.thisLine = <<"<","h">> \o FormatInt(K.line.headerLevel)
                                \o <<">">> \o K.line.headerText
                                \o <<"<","/","h">>
                                \o FormatInt(K.line.headerLevel) \o <<">">>],
               TRUE>>
          [] b = "horizontalLine" ->
             <<[endAllSections(K) EXCEPT !.thisLine = <<"<","h","r",">">>],
               TRUE>>
          [] b = "paragraph" ->
             <<startParagraph(endTable(endAllLists(endBlock(
                   endOrgSection(K))))), TRUE>>
          [] b = "blank" ->
             <<endParagraph(endTable(endAllLists(endOrgSection(K)))), FALSE>>
          [] OTHER -> <<K, TRUE>>

\* The end of processLine: the line is put out if includeLine holds.
include(K, includeLine, text) ==
    IF includeLine THEN Emit([K EXCEPT !.thisLine = text], text) ELSE K

outputLine(K, includeLine) ==
    include(K, includeLine,
            IF ~includeLine THEN <<>>
            ELSE IF ~K.state.inBlock /\ ~K.state.inCodeSection
            THEN applyInlineMarkup(K.line.isOrgHeader, K.thisLine)
            ELSE Escape(Drop(K.thisLine, 4)))

dispatched(d, b) == outputLine([d[1] EXCEPT !.branch = b], d[2])

scanned(K) ==
    IF K.line.raised # "none" THEN [K EXCEPT !.branch = "raised"]
    ELSE dispatched(dispatch(K), Branch(K))

\* KiwiMarkup.processLine. K.branch records the branch the line took.
processLine(K) ==
    IF K.thisLine = None THEN [K EXCEPT !.branch = "noLine"]
    ELSE scanned([K EXCEPT !.line = scan(K.line, K.thisLine, K.nextLine,
                                         K.state, K.mode)])

\* re.search("-*- mode: org -*-", s): s holds "- mode: org -".
ModeLineMatch(s) ==
    \E k \in 1..Len(s) :
        StartsWithAt(s, k, <<"-"," ","m","o","d","e",":"," ","o","r","g"," ","-">>)

\* The mode execute() runs in; given = FALSE is a call without the argument.
modeOf(ls, given, m) ==
    IF given THEN m
    ELSE IF ModeLineMatch(ls[1]) THEN KIWI_MODE_ORG ELSE KIWI_MODE_STD

\* The loop body processing every line, skipNextLine or not.
loopBody_NoSkip(K, raw) ==
    processLine([K EXCEPT !.thisLine = K.nextLine,
                          !.nextLine = TabsToSpaces(Rstrip(raw))])

\* The body of the for loop of execute(), for the input line raw.
loopBody(K, raw) ==
    LET K1 == [K EXCEPT !.thisLine = K.nextLine,
                        !.nextLine = TabsToSpaces(Rstrip(raw))]
    IN  IF ~K1.line.skipNextLine
        THEN processLine(K1)
        ELSE [K1 EXCEPT !.line.skipNextLine = FALSE, !.branch = "skipped"]

\* The final line processed whether it was consumed or not.
finalLine_NoSkip(K) ==
    processLine([K EXCEPT !.thisLine = K.nextLine, !.nextLine = <<>>])

\* "Process the final line" of execute().
finalLine(K) ==
    IF ~K.line.skipNextLine
    THEN processLine([K EXCEPT !.thisLine = K.nextLine, !.nextLine = <<>>])
    ELSE [K EXCEPT !.branch = "skipped"]

\* The attributes execute() sets before its loop; self.state is kept.
startRun(K, md) ==
    [K EXCEPT !.mode = md, !.line = KiwiLineScanner, !.thisLine = None,
              !.nextLine = None, !.indents = <<>>, !.output = <<>>,
              !.branch = "noLine"]

\* A whole run of execute() on the instance K (ls is not empty).
RECURSIVE loopFrom(_, _, _)
loopFrom(K, ls, k) ==
    IF k > Len(ls) \/ K.line.raised # "none" THEN K
    ELSE loopFrom(loopBody(K, ls[k]), ls, k + 1)

run(K, ls, md) ==
    LET K1 == loopFrom(startRun(K, md), ls, 1)
        K2 == IF K1.line.raised # "none" THEN K1 ELSE finalLine(K1)
    IN  IF K2.line.raised # "none" THEN K2 ELSE endAllSections(K2)

\* KiwiMarkup.__init__
NewKiwiMarkup ==
    [state |-> KiwiState, mode |-> KIWI_MODE_STD, line |-> KiwiLineScanner,
     thisLine |-> None, nextLine |-> None, indents |-> <<>>,
     output |-> <<>>, branch |-> "noLine"]

----------------------------------------------------------------------------
(* The inputs of the model.                                                *)

MaxLines == 2
MaxLaterLines == 1
MaxCalls == 2
MaxRun == 7
MaxHashes == 7
MaxListLines == 3
MaxRows == 2

Blank == <<>>
TextLine == <<"L","i","n","e"," ","1">>
ListA == <<"*"," ","a">>
ListB == <<" "," "," "," ","*"," ","b">>
ListC == <<"*"," ","c">>
BlockLine == <<" "," "," "," ","<","x",">">>
TitleLine == <<"#"," ","T","i","t","l","e">>
RowLine == <<"a","|","b","|","c">>
DividerLine == <<"-","-","-","|","-","-","-","|","-","-","-">>
CodeStartLine == <<"c","o","d","e",":">>
CodeEndLine == <<":","c","o","d","e">>

Run(c, n) == [k \in 1..n |-> c]

\* The lines the general inputs are made of.
Vocabulary ==
    {Blank, TextLine, ListA, ListB, BlockLine, TitleLine, Run("=", 6),
     Run("-", 6), RowLine, DividerLine, CodeStartLine, CodeEndLine}

RECURSIVE SeqsUpTo(_, _)
SeqsUpTo(S, n) ==
    IF n = 0 THEN {<<>>}
    ELSE LET shorter == SeqsUpTo(S, n - 1)
         IN  shorter \cup {Append(s, x) : s \in shorter, x \in S}

\* Header texts and ATX header lines: 0-3 spaces, hashes, a space, the text.
Titles ==
    {<<"T","i","t","l","e">>, <<"T">>, <<"a"," ","_","b","_">>,
     <<"a","|","b","|","c">>, <<"a","|","b">>, <<"T"," ","#">>}

AtxLines ==
    {Spaces(w) \o Run("#", n) \o <<" ">> \o t :
        w \in 0..3, n \in 1..MaxHashes, t \in Titles}

\* Lines of one repeated character, alone and under a text line.
RunInputs ==
    UNION {{<<Run(c, n)>>, <<TextLine, Run(c, n)>>, <<TextLine, Run(c, n), Blank>>} :
              c \in {"=", "-"}, n \in 1..MaxRun}

ModeLine ==
    <<"-","*","-"," ","m","o","d","e",":"," ","o","r","g"," ","-","*","-">>

ScenarioInputs ==
    {<<ListA, ListB, ListC>>, <<ListA>>, <<TextLine, Run("=", 3), Blank>>,
     <<ModeLine, ListA>>, <<BlockLine, Blank, Run("-", 6)>>,
     <<ListA, TextLine, RowLine>>, <<RowLine, DividerLine, RowLine>>,
     <<CodeStartLine, TextLine, CodeEndLine>>,
     <<CodeStartLine, TextLine, Run("=", 6), CodeEndLine>>}

\* A list line: n spaces, the asterisk, a space, the text t.
ListItem(n, t) == Spaces(n) \o <<"*", " ">> \o t

ListIndents == {0, 2, 4}

\* Runs of list lines of any indents.
ListInputs ==
    SeqsUpTo({ListItem(n, <<"x">>) : n \in ListIndents}, MaxListLines) \ {<<>>}

\* Five list lines of the indents 0, 0, 2, 2, 0.
NestingInput ==
    <<ListItem(0, <<"a">>), ListItem(0, <<"b">>), ListItem(2, <<"c">>),
      ListItem(2, <<"d">>), ListItem(0, <<"e">>)>>

NumberRow == <<"1","|","2","|","3">>

RowLines == {RowLine, NumberRow}

\* A row line, a divider line and further row lines.
TableInputs ==
    {<<h, DividerLine>> \o rows :
        h \in RowLines, rows \in SeqsUpTo(RowLines, MaxRows) \ {<<>>}}

Inputs ==
    (SeqsUpTo(Vocabulary, MaxLines) \ {<<>>})
    \cup {<<h>> : h \in AtxLines} \cup RunInputs \cup ScenarioInputs
    \cup ListInputs \cup {NestingInput} \cup TableInputs

\* The inputs of the later calls on an instance.
LaterInputs == SeqsUpTo(Vocabulary, MaxLaterLines) \ {<<>>}

\* The lists execute() is called with: the inputs and the empty list.
Arguments == Inputs \cup {<<>>}

LaterArguments == LaterInputs \cup {<<>>}

Modes == {KIWI_MODE_STD, KIWI_MODE_ORG}

----------------------------------------------------------------------------
(* The state machine: a KiwiMarkup instance and the execute() calls the    *)
(* caller makes on it.                                                     *)

Self ==
    [state |-> state, mode |-> mode, line |-> line, thisLine |-> thisLine,
     nextLine |-> nextLine, indents |-> indents, output |-> output,
     branch |-> branch]

Becomes(K) ==
    /\ state' = K.state
    /\ mode' = K.mode
    /\ line' = K.line
    /\ thisLine' = K.thisLine
    /\ nextLine' = K.nextLine
    /\ indents' = K.indents
    /\ output' = K.output
    /\ branch' = K.branch

Init ==
    /\ pc = "idle"
    /\ lines = <<>>
    /\ i = 0
    /\ calls = 0
    /\ result = FALSE
    /\ exc = "none"
    /\ state = NewKiwiMarkup.state
    /\ mode = NewKiwiMarkup.mode
    /\ line = NewKiwiMarkup.line
    /\ thisLine = NewKiwiMarkup.thisLine
    /\ nextLine = NewKiwiMarkup.nextLine
    /\ indents = NewKiwiMarkup.indents
    /\ output = NewKiwiMarkup.output
    /\ branch = NewKiwiMarkup.branch
    /\ seen = {}

\* execute(ls, m) up to its loop: the assert, the mode, the run's attributes.
Execute(ls, given, m) ==
    /\ pc \in {"idle", "done", "raised"}
    /\ calls < MaxCalls
    /\ calls' = calls + 1
    /\ lines' = ls
    /\ i' = 0
    /\ result' = result
    /\ seen' = {}
    /\ IF ls = <<>>
       THEN /\ exc' = "AssertionError"
            /\ pc' = "raised"
            /\ Becomes(Self)
       ELSE /\ exc' = "none"
            /\ pc' = "loop"
            /\ \E K \in {startRun(Self, modeOf(ls, given, m))} : Becomes(K)

\* An iteration that reads the first input line every time.
Loop_FirstLineAgain ==
    /\ pc = "loop"
    /\ i < Len(lines)
    /\ \E K \in {loopBody(Self, lines[1])} :
           /\ Becomes(K)
           /\ seen' = seen \cup {K.branch}
           /\ exc' = K.line.raised
           /\ pc' = IF K.line.raised # "none" THEN "raised"
                    ELSE IF i + 1 = Len(lines) THEN "final" ELSE "loop"
    /\ i' = i + 1
    /\ UNCHANGED <<lines, calls, result>>

\* One iteration of the for loop of execute().
Loop ==
    /\ pc = "loop"
    /\ i < Len(lines)
    /\ \E K \in {loopBody(Self, lines[i + 1])} :
           /\ Becomes(K)
           /\ seen' = seen \cup {K.branch}
           /\ exc' = K.line.raised
           /\ pc' = IF K.line.raised # "none" THEN "raised"
                    ELSE IF i + 1 = Len(lines) THEN "final" ELSE "loop"
    /\ i' = i + 1
    /\ UNCHANGED <<lines, calls, result>>

\* The final line of execute(): the last line read is processed.
Final ==
    /\ pc = "final"
    /\ \E K \in {finalLine(Self)} :
           /\ Becomes(K)
           /\ seen' = seen \cup {K.branch}
           /\ exc' = K.line.raised
           /\ pc' = IF K.line.raised # "none" THEN "raised" ELSE "flush"
    /\ UNCHANGED <<lines, i, calls, result>>

\* The end of execute() returning len(self.output) > 1.
Return_MoreThanOneLine ==
    /\ pc = "flush"
    /\ \E K \in {endAllSections(Self)} :
           /\ Becomes(K)
           /\ result' = (Len(K.output) > 1)
    /\ pc' = "done"
    /\ UNCHANGED <<lines, i, calls, exc, seen>>

\* The end of execute(): endAllSections() and the return value.
Return ==
    /\ pc = "flush"
    /\ \E K \in {endAllSections(Self)} :
           /\ Becomes(K)
           /\ result' = (Len(K.output) > 0)
    /\ pc' = "done"
    /\ UNCHANGED <<lines, i, calls, exc, seen>>

\* The caller calls execute(): with any list of lines, with a mode or without.
Call ==
    /\ pc \in {"idle", "done", "raised"}
    /\ calls < MaxCalls
    /\ \E ls \in (IF calls = 0 THEN Arguments ELSE LaterArguments),
          given \in BOOLEAN :
           \E m \in (IF given THEN Modes ELSE {KIWI_MODE_STD}) :
               Execute(ls, given, m)

Next ==
    \/ Call
    \/ Loop
    \/ Final
    \/ Return

Spec == Init /\ [][Next]_vars

----------------------------------------------------------------------------
(* applyInlineMarkup() on its own: a line of text is given, with the       *)
(* isOrgHeader flag of the scanner, and the line is rewritten.             *)

MaxWords == 2

\* Words: an opening marker, a core, a closing marker.
Openers == {<<>>, <<"*","*">>, <<"_">>, <<"*","*","_">>}
Closers == {<<>>, <<"*","*">>, <<"_">>, <<"_","*","*">>}
Cores == {<<"a">>, <<"a","_","b">>}

Words == {o \o c \o e : o \in Openers, c \in Cores, e \in Closers}

\* The words ws with one space between them.
RECURSIVE JoinWords(_)
JoinWords(ws) ==
    IF ws = <<>> THEN <<>>
    ELSE IF Len(ws) = 1 THEN ws[1]
    ELSE ws[1] \o <<" ">> \o JoinWords(Tail(ws))

BoldAndEm ==
    <<"*","*","b","o","l","d","*","*"," ","a","n","d"," ","_","e","m","_">>

WordTexts ==
    {JoinWords(ws) : ws \in SeqsUpTo(Words, MaxWords) \ {<<>>}} \cup {BoldAndEm}

\* [img.C:A](P), the class and the alt text each there or not.
ImgClasses == {<<>>, <<".","p","i","c">>, <<".">>}
ImgAlts == {<<>>, <<":","d","e","s","c">>, <<":">>}
ImgPaths == {<<"x",".","p","n","g">>, <<>>}

ImgForm(c, a, p) ==
    <<"[","i","m","g">> \o c \o a \o <<"]","(">> \o p \o <<")">>

ImgTexts ==
    {pre \o ImgForm(c, a, p) \o post :
        pre \in {<<>>, <<"s","e","e"," ">>}, c \in ImgClasses, a \in ImgAlts,
        p \in ImgPaths, post \in {<<>>, <<".">>}}

\* [^n] and [^n]: in a line.
FootnoteNumbers == {<<"1">>, <<"1","2">>}

FootnoteMark(n) == <<"[","^">> \o n \o <<"]">>

FootnoteTexts ==
    {pre \o FootnoteMark(n) \o post :
        pre \in {<<>>, <<"a"," ">>, <<"[","^","7","]",":">>, <<"[","^","7","]">>},
        n \in FootnoteNumbers,
        post \in {<<>>, <<":">>, <<" ","b">>, <<":"," ","b">>}}

InlineTexts == WordTexts \cup ImgTexts \cup FootnoteTexts

\* isOrgHeader is set only for a line whose first character is an asterisk.
OrgHeaderFlags(text) ==
    IF Strip(text) # <<>> /\ Strip(text)[1] = "*" THEN BOOLEAN ELSE {FALSE}

InlineInit ==
    /\ pc = "inline"
    /\ \E text \in InlineTexts :
           /\ lines = <<text>>
           /\ thisLine = text
           /\ \E h \in OrgHeaderFlags(text) :
                  /\ line = [KiwiLineScanner EXCEPT !.isOrgHeader = h,
                                                    !.isParagraph = ~h]
                  /\ mode = IF h THEN KIWI_MODE_ORG ELSE KIWI_MODE_STD
    /\ i = 0
    /\ calls = 0
    /\ result = FALSE
    /\ exc = "none"
    /\ state = KiwiState
    /\ nextLine = <<>>
    /\ indents = <<>>
    /\ output = <<>>
    /\ branch = "noLine"
    /\ seen = {}

\* self.thisLine = self.applyInlineMarkup(self.thisLine)
ApplyInlineMarkup ==
    /\ pc = "inline"
    /\ pc' = "rendered"
    /\ thisLine' = applyInlineMarkup(line.isOrgHeader, thisLine)
    /\ UNCHANGED <<lines, i, calls, result, exc, mode, state, line, nextLine,
                   indents, output, branch, seen>>

InlineNext == ApplyInlineMarkup

InlineSpec == InlineInit /\ [][InlineNext]_vars

----------------------------------------------------------------------------
(* The claims. A run has returned when pc = "done"; output, state and      *)
(* result are then what execute() left behind.                             *)

\* Number of lines of out that are, indentation aside, the tag.
CountTag(out, tag) == Cardinality({k \in 1..Len(out) : Lstrip(out[k]) = tag})

Balanced(out, open, close) == CountTag(out, open) = CountTag(out, close)

\* The line execute() makes of the input line raw before it is scanned.
Cleaned(raw) == TabsToSpaces(Rstrip(raw))

\* C1: when execute returns, the output holds exactly as many </ul> lines as
\* <ul> lines, for every non-empty input and either mode.
C1_UlBalanced ==
    pc = "done" =>
        Balanced(output, <<"<","u","l",">">>, <<"<","/","u","l",">">>)

\* A code: line was processed and no :code line follows the last code: line.
UnterminatedCode ==
    /\ "codeStart" \in seen
    /\ \E k \in 1..Len(lines) :
           /\ CodeStartMatch(Cleaned(lines[k]))
           /\ \A j \in (k + 1)..Len(lines) : ~CodeEndMatch(Cleaned(lines[j]))

\* C2: a fenced-code section left open by the input is closed at the end of
\* the input: execute emits </code> and </pre> before it returns, the <pre>
\* and <code> counts balance, and inCodeSection is false on return.
C2_CodeForceClosed ==
    (pc = "done" /\ UnterminatedCode) =>
        /\ ~state.inCodeSection
        /\ CountTag(output, <<"<","/","c","o","d","e",">">>) > 0
        /\ Balanced(output, <<"<","p","r","e",">">>, <<"<","/","p","r","e",">">>)
        /\ Balanced(output, <<"<","c","o","d","e",">">>,
                    <<"<","/","c","o","d","e",">">>)

\* C3: when execute returns, the output holds as many </table> lines as
\* <table> lines and as many </p> lines as <p> lines (paragraphs and
\* org-sections), for every non-empty input and either mode.
C3_TableAndParagraphBalanced ==
    pc = "done" =>
        /\ Balanced(output, <<"<","t","a","b","l","e",">">>,
                    <<"<","/","t","a","b","l","e",">">>)
        /\ Balanced(output, <<"<","p",">">>, <<"<","/","p",">">>)

\* A run that opened a paragraph, an org-section and a table has returned.
C3_Witness ==
    /\ pc = "done"
    /\ mode = KIWI_MODE_ORG
    /\ "orgHeader" \in seen
    /\ "paragraph" \in seen
    /\ CountTag(output, <<"<","t","a","b","l","e",">">>) > 0
    /\ CountTag(output, <<"<","p",">">>) > 1

\* C4 as claimed: for every non-empty input with at least one non-blank
\* line, execute returns true and the output is not empty.
C4_NonBlankGivesOutput ==
    (pc = "done" /\ \E k \in 1..Len(lines) : Strip(lines[k]) # <<>>) =>
        (result /\ output # <<>>)

\* The branches of processLine that put out nothing of the line itself.
NonContent == {"noLine", "skipped", "blank", "codeStart", "codeEnd"}

\* C4, amended: for every non-empty input of which at least one line is
\* dispatched as something other than a blank line or a code-fence marker
\* (lines consumed as an underline or a table divider are not dispatched),
\* execute returns true and the output is not empty.
C4_ContentGivesOutput ==
    (pc = "done" /\ seen \ NonContent # {}) => (result /\ output # <<>>)

\* A run with a stray :code line and a paragraph line has returned true.
C4_Witness ==
    /\ pc = "done"
    /\ "codeEnd" \in seen
    /\ "paragraph" \in seen
    /\ result
    /\ output # <<>>

\* C5: execute with an empty list raises before anything of the instance is
\* touched, and no other input raises: a call that raised was given the
\* empty list.
C5_OnlyEmptyInputRaises ==
    /\ [](exc # "none" => (exc = "AssertionError" /\ lines = <<>>))
    /\ [](pc = "raised" => (exc = "AssertionError" /\ lines = <<>>))
    /\ [][(calls' # calls /\ lines' = <<>>) =>
            /\ pc' = "raised"
            /\ exc' = "AssertionError"
            /\ UNCHANGED <<mode, state, line, thisLine, nextLine, indents,
                           output>>]_vars

\* A second call with the empty list has raised and left the output and the
\* state of the first call in place.
C5_Witness ==
    /\ pc = "raised"
    /\ exc = "AssertionError"
    /\ calls = 2
    /\ lines = <<>>
    /\ output # <<>>
    /\ state.inCodeSection

AllClosed(st) ==
    /\ ~st.inParagraph
    /\ ~st.inTable
    /\ ~st.inList
    /\ ~st.inBlock
    /\ ~st.inOrgSection
    /\ ~st.inCodeSection

\* C6: a later execute call on the same instance starts with every section
\* flag false and an empty indent stack, and its output is the output of a
\* newly constructed instance for the same lines and mode.
C6_RunsIsolated ==
    /\ (calls >= 2 /\ pc = "loop" /\ i = 0) =>
           (AllClosed(state) /\ indents = <<>>)
    /\ (calls >= 2 /\ pc = "done") =>
           output = run(NewKiwiMarkup, lines, mode).output

\* The step about to be taken scans nextLine as the current line; the line
\* after it is nextLine' (the empty line when the input has ended).
Scanning == pc \in {"loop", "final"} /\ ~line.skipNextLine /\ nextLine # None

\* The scanned line is not blank and no ATX header, and the line after it
\* is made of at least n characters c and of nothing else.
Underlined(c, n) ==
    /\ Scanning
    /\ Strip(nextLine) # <<>>
    /\ ~HeaderMatch(nextLine)
    /\ IsRun(nextLine', c, n)

SetextClassified(level) ==
    /\ line'.isHeader
    /\ line'.headerLevel = level
    /\ line'.headerText = nextLine
    /\ line'.skipNextLine

\* C7 as claimed: a non-blank line that is no ATX header and is followed by
\* a line of N = characters, N >= 5, is classified as a level-1 header (by N
\* hyphens, N >= 5, as a level-2 header), its text is the line itself and
\* the underline is marked to be skipped.
C7_SetextFromFive ==
    [][/\ Underlined("=", 5) => SetextClassified(1)
       /\ Underlined("-", 5) => SetextClassified(2)]_vars

\* C7, amended: the same for every N >= 6.
C7_SetextFromSix ==
    [][/\ Underlined("=", 5 + 1) => SetextClassified(1)
       /\ Underlined("-", 5 + 1) => SetextClassified(2)]_vars

\* The line above an underline of six = has been classified and dispatched
\* as a level-1 header.
C7_Witness ==
    /\ pc \in {"loop", "final"}
    /\ i >= 2
    /\ lines[i] = Run("=", 6)
    /\ branch = "header"
    /\ line.isHeader
    /\ line.headerLevel = 1
    /\ line.headerText = lines[i - 1]
    /\ line.skipNextLine

H1Line1 == <<"<","h","1",">">> \o TextLine \o <<"<","/","h","1",">">>

\* The first output line is <h1>Line 1</h1> and the underline is not put out.
HeaderWithoutUnderline(underline) ==
    /\ Len(output) >= 1
    /\ output[1] = H1Line1
    /\ \A k \in 1..Len(output) : output[k] # underline

\* C8 as claimed: for the lines "Line 1", "===", "" in Standard mode the
\* first output line is <h1>Line 1</h1> and the === line is not put out.
C8_ThreeEquals ==
    (/\ pc = "done"
     /\ calls = 1
     /\ mode = KIWI_MODE_STD
     /\ lines = <<TextLine, Run("=", 3), Blank>>) =>
        HeaderWithoutUnderline(Run("=", 3))

\* C8, amended: for the lines "Line 1", "======", "" given in Standard mode
\* to a newly constructed instance the first output line is <h1>Line 1</h1>
\* and the ====== line is not put out.
C8_SixEquals ==
    (/\ pc = "done"
     /\ calls = 1
     /\ mode = KIWI_MODE_STD
     /\ lines = <<TextLine, Run("=", 6), Blank>>) =>
        HeaderWithoutUnderline(Run("=", 6))

\* The run on "Line 1", "======", "" has returned the header line alone.
C8_Witness ==
    /\ pc = "done"
    /\ calls = 1
    /\ mode = KIWI_MODE_STD
    /\ lines = <<TextLine, Run("=", 6), Blank>>
    /\ "skipped" \in seen
    /\ output = <<H1Line1>>

Hr == <<"<","h","r",">">>

\* A scanned line of at least n hyphens is classified as a horizontal rule,
\* and a line dispatched as a horizontal rule leaves every section closed
\* and <hr> as the line put out.
RuleFrom(n) ==
    /\ (Scanning /\ IsRun(nextLine, "-", n)) => line'.isHorizontalLine
    /\ (Scanning /\ branch' = "horizontalLine") =>
           /\ AllClosed(state')
           /\ indents' = <<>>
           /\ Len(output') > Len(output)
           /\ output'[Len(output')] = Hr

\* C9 as claimed: a line of N hyphens is classified as a horizontal rule for
\* every N >= 5, and its dispatch as a horizontal rule closes every open
\* section and puts out the single line <hr>.
C9_RuleFromFive == [][RuleFrom(5)]_vars

\* C9, amended: the same for every N >= 6.
C9_RuleFromSix == [][RuleFrom(5 + 1)]_vars

\* A final line of six hyphens has closed an open indented block and put
\* out <hr>.
C9_Witness ==
    /\ pc = "flush"
    /\ lines[Len(lines)] = Run("-", 6)
    /\ branch = "horizontalLine"
    /\ "block" \in seen
    /\ CountTag(output, <<"<","/","p","r","e",">">>) > 0
    /\ output[Len(output)] = Hr
    /\ AllClosed(state)

\* An ATX header line: w spaces, n # characters, a space, the text t.
AtxLine(w, n, t) == Spaces(w) \o Run("#", n) \o <<" ">> \o t

\* <hn>t</hn>
HeaderLine(n, t) ==
    <<"<", "h", Digits[n + 1], ">">> \o t \o <<"<", "/", "h", Digits[n + 1], ">">>

Occurrences(t, c) == Cardinality({k \in 1..Len(t) : t[k] = c})

\* The header level the scanner holds is within 1..6; the run of a newly
\* constructed instance on one ATX header line, of 0-3 spaces, 1-6 #
\* characters and a text for which plain holds, has put out <hn>T</hn> and
\* nothing else.
AtxHeaderAlone(plain(_)) ==
    /\ line.isHeader => line.headerLevel \in 1..6
    /\ (pc = "done" /\ calls = 1 /\ Len(lines) = 1) =>
           \A w \in 0..3, n \in 1..6, t \in Titles :
               (plain(t) /\ lines = <<AtxLine(w, n, t)>>) =>
                   output = <<HeaderLine(n, t)>>

WithoutHash(t) == Occurrences(t, "#") = 0

\* No #, fewer than two |, and none of the characters inline markup starts
\* with.
PlainTitle(t) ==
    /\ WithoutHash(t)
    /\ Occurrences(t, "|") < 2
    /\ \A c \in {"*", "_", "["} : Occurrences(t, c) = 0

\* C10 as claimed: a single ATX header line with a text T without # gives
\* exactly the one output line <hn>T</hn>, and the header level is always
\* within 1..6.
C10_AtxAnyText == AtxHeaderAlone(WithoutHash)

\* C10, amended: a single ATX header line given to a newly constructed
\* instance, with a text T that has no #, fewer than two | and none of the
\* characters *, _ and [, gives exactly the one output line <hn>T</hn>; the
\* header level is always within 1..6.
C10_AtxPlainText == AtxHeaderAlone(PlainTitle)

\* The run on "   ###### T" has returned <h6>T</h6> alone.
C10_Witness ==
    /\ pc = "done"
    /\ calls = 1
    /\ lines = <<AtxLine(3, 6, <<"T">>)>>
    /\ line.isHeader
    /\ line.headerLevel = 6
    /\ output = <<HeaderLine(6, <<"T">>)>>

\* The position of the first line of out that is, indentation aside, l;
\* 0 when there is none.
IndexOf(out, l) == FirstOf({k \in 1..Len(out) : Lstrip(out[k]) = l}, 0)

\* The position of the first such line after position p; 0 when none.
IndexAfter(out, l, p) ==
    FirstOf({k \in (p + 1)..Len(out) : Lstrip(out[k]) = l}, 0)

UlOpen == <<"<","u","l",">">>
UlClose == <<"<","/","u","l",">">>
LiClose == <<"<","/","l","i",">">>

\* <li>t</li>
ClosedItem(t) == <<"<","l","i",">">> \o t \o LiClose

\* <li>t
OpenItem(t) == <<"<","l","i",">">> \o t

\* The output out nests the list of c and d inside item b: nested is the
\* position of the second <ul>, closed that of the </ul> after it.
NestedInItemB(out, nested, closed) ==
    /\ CountTag(out, UlOpen) = 2
    /\ IndexOf(out, UlOpen) < nested
    /\ IndexOf(out, OpenItem(<<"b">>)) > 0
    /\ IndexOf(out, ClosedItem(<<"b">>)) = 0
    /\ IndexOf(out, OpenItem(<<"b">>)) < nested
    /\ nested < IndexOf(out, ClosedItem(<<"c">>))
    /\ IndexOf(out, ClosedItem(<<"c">>)) < IndexOf(out, ClosedItem(<<"d">>))
    /\ IndexOf(out, ClosedItem(<<"d">>)) < closed
    /\ closed < IndexOf(out, ClosedItem(<<"e">>))
    /\ IndexOf(out, LiClose) > closed
    /\ IndexOf(out, LiClose) < IndexOf(out, ClosedItem(<<"e">>))

\* C11: for five list lines of the indents 0, 0, 2, 2, 0 in Standard mode
\* the output opens one outer and one nested <ul>; the nested <ul> comes
\* after item 2 and before item 3, its </ul> before item 5; item 2 is put
\* out as <li>text without a closing tag and the </li> closing it comes
\* only after the </ul> of the nested list.
C11_NestedList ==
    (pc = "done" /\ calls = 1 /\ mode = KIWI_MODE_STD /\ lines = NestingInput) =>
        NestedInItemB(output,
                      IndexAfter(output, UlOpen, IndexOf(output, UlOpen)),
                      IndexAfter(output, UlClose,
                          IndexAfter(output, UlOpen, IndexOf(output, UlOpen))))

\* The run on the five list lines has returned with item 2 left open and
\* two <ul> lines.
C11_Witness ==
    /\ pc = "done"
    /\ calls = 1
    /\ mode = KIWI_MODE_STD
    /\ lines = NestingInput
    /\ CountTag(output, UlOpen) = 2
    /\ IndexOf(output, OpenItem(<<"b">>)) = 3


TableOpen == <<"<","t","a","b","l","e",">">>
TableClose == <<"<","/","t","a","b","l","e",">">>

\* The cells of a row line: the texts between its | characters.
Cells(row) == Split(row, "|")

\* The output lines of one table row whose cells are in the element tag.
RowOf(row, tag) ==
    <<Spaces(4) \o <<"<","t","r",">">>>>
    \o [k \in 1..Len(Cells(row)) |->
           Spaces(8) \o <<"<">> \o tag \o <<">">> \o Cells(row)[k]
           \o <<"<","/">> \o tag \o <<">">>]
    \o <<Spaces(4) \o <<"<","/","t","r",">">>>>

\* The rows ls[k..] as data rows.
RECURSIVE DataRows(_, _)
DataRows(ls, k) ==
    IF k > Len(ls) THEN <<>>
    ELSE RowOf(ls[k], <<"t","d">>) \o DataRows(ls, k + 1)

\* One table: the header row of ls[1], nothing of the divider ls[2], the
\* data rows of ls[3..], the closing tag.
OneTable(ls) ==
    <<TableOpen>> \o RowOf(ls[1], <<"t","h">>) \o DataRows(ls, 3)
    \o <<TableClose>>

\* C12: a row line, a divider line and further row lines given to a new
\* instance yield exactly one table: the first row's cells as <th>, nothing
\* for the divider line, every later row's cells as <td>, and </table> as
\* the last line when execute returns.
C12_OneTable ==
    (pc = "done" /\ calls = 1 /\ lines \in TableInputs) =>
        /\ output = OneTable(lines)
        /\ CountTag(output, TableOpen) = 1
        /\ ~state.inTable

\* The run on a|b|c, ---|---|---, 1|2|3 has returned: three <th> cells,
\* three <td> cells, the table closed.
C12_Witness ==
    /\ pc = "done"
    /\ calls = 1
    /\ lines = <<RowLine, DividerLine, NumberRow>>
    /\ "table" \in seen
    /\ "skipped" \in seen
    /\ Len(output) = 12
    /\ Cardinality({k \in 1..Len(output) :
           Take(Lstrip(output[k]), 4) = <<"<","t","h",">">>}) = 3
    /\ Cardinality({k \in 1..Len(output) :
           Take(Lstrip(output[k]), 4) = <<"<","t","d",">">>}) = 3
    /\ output[Len(output)] = TableClose


\* The text s holds the text t somewhere.
Contains(s, t) == \E k \in 1..Len(s) : StartsWithAt(s, k, t)

BoldMarker == <<"*","*">>
BoldTag == <<"<","b",">">>
BoldEndTag == <<"<","/","b",">">>
EmTag == <<"<","i",">">>
EmEndTag == <<"<","/","i",">">>

\* The words of a text: what stands between its spaces.
WordsOf(text) == Split(text, " ")

\* A word-text the inline markup has been applied to as a non-org-header
\* line: lines[1] is the text given, thisLine the text returned.
RenderedWords ==
    /\ pc = "rendered"
    /\ ~line.isOrgHeader
    /\ lines[1] \in WordTexts

\* No word of the text ends with the bold marker.
NoBoldClose(text) ==
    \A k \in 1..Len(WordsOf(text)) :
        LET w == WordsOf(text)[k]
        IN  Len(w) < 2 \/ SubSeq(w, Len(w) - 1, Len(w)) # BoldMarker

OpenTags(o) ==
    CASE o = <<>> -> <<>>
      [] o = <<"*","*">> -> BoldTag
      [] o = <<"_">> -> EmTag
      [] o = <<"*","*","_">> -> BoldTag \o EmTag

CloseTags(e) ==
    CASE e = <<>> -> <<>>
      [] e = <<"*","*">> -> BoldEndTag
      [] e = <<"_">> -> EmEndTag
      [] e = <<"_","*","*">> -> EmEndTag \o BoldEndTag

\* The opening marker, the core and the closing marker a word is made of.
PartsOf(w) ==
    CHOOSE p \in Openers \X Cores \X Closers : p[1] \o p[2] \o p[3] = w

TaggedWord(p) == OpenTags(p[1]) \o p[2] \o CloseTags(p[3])

TaggedWords(ws) == JoinWords([k \in 1..Len(ws) |-> TaggedWord(PartsOf(ws[k]))])

ImgTag(c, a, p) ==
    <<"<","i","m","g"," ","s","r","c","=","'">> \o p
    \o <<"'"," ","c","l","a","s","s","=","'">> \o c
    \o <<"'"," ","a","l","t","=","'">> \o a
    \o <<"'"," ","t","i","t","l","e","=","'">> \o a \o <<"'","/",">">>

\* The class or alt text of a part of the form: the part without its
\* leading "." or ":", the empty text for a part that is not there.
TextOf(part) == IF part = <<>> THEN <<>> ELSE Tail(part)

\* C14: the extended image form [img.C:A](P), the class and the alt text
\* each there or not, is rewritten to <img src='P' class='C' alt='A'
\* title='A'/> with the empty text for a class or alt that is not there,
\* and the text around the form is kept: the substitution returns for each
\* of the combinations.
C14_ImgAllForms ==
    (pc = "rendered" /\ lines[1] \in ImgTexts) =>
        /\ thisLine # lines[1]
        /\ \A c \in ImgClasses, a \in ImgAlts, p \in ImgPaths :
               \A pre \in {Take(lines[1], n) : n \in 0..Len(lines[1])},
                  post \in {Drop(lines[1], n) : n \in 0..Len(lines[1])} :
                   lines[1] = pre \o ImgForm(c, a, p) \o post =>
                       thisLine = pre \o ImgTag(TextOf(c), TextOf(a), p) \o post

\* [img](x.png), neither class nor alt text, has been rewritten to the tag
\* with both empty.
C14_Witness ==
    /\ pc = "rendered"
    /\ lines[1] = ImgForm(<<>>, <<>>, <<"x",".","p","n","g">>)
    /\ thisLine = ImgTag(<<>>, <<>>, <<"x",".","p","n","g">>)


\* n. <a name='footnote_target_n' href='#footnote_ref_n'>&#160;&#8617;</a>
TargetAnchor(n) ==
    n \o <<"."," ","<","a"," ","n","a","m","e","=","'">>
    \o <<"f","o","o","t","n","o","t","e","_","t","a","r","g","e","t","_">> \o n
    \o <<"'"," ","h","r","e","f","=","'","#">>
    \o <<"f","o","o","t","n","o","t","e","_","r","e","f","_">> \o n
    \o <<"'",">","&","#","1","6","0",";","&","#","8","6","1","7",";","<","/","a",">">>

\* <a name='footnote_ref_n' href='#footnote_target_n'>[<sup>n</sup>]</a>
RefAnchor(n) ==
    <<"<","a"," ","n","a","m","e","=","'">>
    \o <<"f","o","o","t","n","o","t","e","_","r","e","f","_">> \o n
    \o <<"'"," ","h","r","e","f","=","'","#">>
    \o <<"f","o","o","t","n","o","t","e","_","t","a","r","g","e","t","_">> \o n
    \o <<"'",">","[","<","s","u","p",">">> \o n
    \o <<"<","/","s","u","p",">","]","<","/","a",">">>

\* What the text before a footnote mark becomes.
FootnotePrefix(pre) ==
    IF pre = <<"[","^","7","]",":">> THEN TargetAnchor(<<"7">>)
    ELSE IF pre = <<"[","^","7","]">> THEN RefAnchor(<<"7">>)
    ELSE pre

\* C15: a mark [^n] followed by a colon becomes the back-reference anchor
\* (name footnote_target_n, href #footnote_ref_n), the colon consumed, and
\* never the superscript reference; a mark not followed by a colon becomes
\* the superscript reference anchor (name footnote_ref_n, href
\* #footnote_target_n).
C15_TargetBeforeReference ==
    (pc = "rendered" /\ lines[1] \in FootnoteTexts) =>
        \A n \in FootnoteNumbers :
            \A pre \in {Take(lines[1], k) : k \in 0..Len(lines[1])},
               post \in {Drop(lines[1], k) : k \in 0..Len(lines[1])} :
                /\ (/\ lines[1] = pre \o FootnoteMark(n) \o <<":">> \o post
                    /\ ~Contains(post, <<"[">>)) =>
                       /\ thisLine = FootnotePrefix(pre) \o TargetAnchor(n) \o post
                       /\ ~Contains(thisLine, RefAnchor(n))
                /\ (/\ lines[1] = pre \o FootnoteMark(n) \o post
                    /\ ~Contains(post, <<"[">>)
                    /\ At(post, 1) # ":") =>
                       thisLine = FootnotePrefix(pre) \o RefAnchor(n) \o post

\* The line [^7][^1]: b has been rewritten: the first mark to the
\* superscript reference, the second, the definition, to the back-reference.
C15_Witness ==
    /\ pc = "rendered"
    /\ lines[1] = <<"[","^","7","]","[","^","1","]",":"," ","b">>
    /\ thisLine = RefAnchor(<<"7">>) \o TargetAnchor(<<"1">>) \o <<" ","b">>


\* A step of execute() that processes a non-blank line: the line is the
\* lookahead line nextLine of the step before, and it is not skipped.
ProcessesNonBlank ==
    /\ pc \in {"loop", "final"}
    /\ nextLine # None
    /\ ~line.skipNextLine
    /\ Strip(nextLine) # <<>>

\* The branches in their order, and for the classification L of a line,
\* the sections st open before it and the mode md, whether the condition
\* of each holds.
BranchOrder ==
    <<"orgHeader", "codeStart", "codeEnd", "inCode", "list", "block",
      "table", "header", "horizontalLine", "paragraph">>

Holds(L, st, md) ==
    <<md = KIWI_MODE_ORG /\ L.isOrgHeader, L.isCodeStart, L.isCodeEnd,
      st.inCodeSection, L.isList, L.isBlock, L.isTable, L.isHeader,
      L.isHorizontalLine, L.isParagraph>>

\* The first branch of the order whose condition holds; "none" if none.
FirstHolding(h) ==
    IF \E k \in 1..Len(h) : h[k]
    THEN BranchOrder[FirstOf({k \in 1..Len(h) : h[k]}, 0)]
    ELSE "none"

\* What the scanner finds in the line this with the lookahead line next,
\* looking at nothing but the two lines and the open sections.
Classified(this, next, st, md) == scan(KiwiLineScanner, this, next, st, md)

\* C16: every non-blank line takes exactly one branch, the first in the
\* order org-header (Org mode), code-fence-start, code-fence-end, inside
\* fenced code, list, block, table, header, horizontal-rule, paragraph
\* whose condition holds of the line; so a line of four or more leading
\* spaces that matches the list pattern is a list item when no block is
\* open.
C16_FirstMatchWins ==
    [][ProcessesNonBlank =>
            /\ branch' = FirstHolding(Holds(
                   Classified(nextLine, nextLine', state, mode), state, mode))
            /\ branch' \in {BranchOrder[k] : k \in 1..Len(BranchOrder)}
            /\ (/\ Take(nextLine, 4) = Spaces(4)
                /\ ListMatch(nextLine)
                /\ ~state.inBlock
                /\ ~state.inCodeSection
                /\ mode = KIWI_MODE_STD) => branch' = "list"]_vars


\* The line raw is a line of the list pattern, a code fence or, in Org
\* mode, an org-header.
ListFenceOrOrgHeader(raw, md) ==
    \/ ListMatch(raw)
    \/ CodeStartMatch(raw)
    \/ CodeEndMatch(raw)
    \/ md = KIWI_MODE_ORG /\ Strip(raw)[1] = "*"

\* The lines a step appended to the output.
Appended == SubSeq(output', Len(output) + 1, Len(output'))

\* The lines app are one table row: <tr>, cells, </tr>.
IsRow(app) ==
    /\ Len(app) >= 3
    /\ Lstrip(app[1]) = <<"<","t","r",">">>
    /\ Lstrip(app[Len(app)]) = <<"<","/","t","r",">">>
    /\ \A k \in 2..(Len(app) - 1) :
           Take(Lstrip(app[k]), 3) = <<"<","t","d">>
           \/ Take(Lstrip(app[k]), 3) = <<"<","t","h">>

\* C17: while a table is open, a non-blank input line that is no list
\* line, no code fence and no org-header (and no table divider) is put out
\* as a table row and as nothing else (ATX header lines and lines of
\* hyphens included), and the table stays open; an open table is closed only by a blank line, a list
\* line, a code-fence-start line or the end of the input.
C17_OpenTableTakesLines ==
    [][(state.inTable /\ pc \in {"loop", "final", "flush"}) =>
            /\ (/\ pc \in {"loop", "final"}
                /\ nextLine # None
                /\ Strip(nextLine) # <<>>
                /\ ~ListFenceOrOrgHeader(nextLine, mode)
                /\ ~TableHeaderMatch(nextLine)) =>
                   /\ IsRow(Appended)
                   /\ state'.inTable
            /\ ~state'.inTable =>
                   \/ pc = "flush"
                   \/ /\ nextLine # None
                      /\ \/ Strip(nextLine) = <<>>
                         \/ ListMatch(nextLine)
                         \/ CodeStartMatch(nextLine)]_vars


\* The indents of s grow strictly from the first to the last.
StrictlyIncreasing(s) == \A k \in 1..(Len(s) - 1) : s[k] < s[k + 1]

\* A step takes entries from the back of the stack only and pushes at most
\* one: the indent of the line, onto an empty stack or onto a smaller top.
PopsThenPushes ==
    \E n \in 0..Len(indents) :
        \/ indents' = SubSeq(indents, 1, n)
        \/ /\ indents' = Append(SubSeq(indents, 1, n), line'.listIndent)
           /\ line'.isList
           /\ n = 0 \/ line'.listIndent > indents[n]

\* C18: after every processed line the stack of list indents is strictly
\* increasing from the outermost to the innermost list; an indent is
\* pushed only onto an empty stack or onto a strictly smaller top, and
\* entries leave the stack only from its back.
C18_IndentsIncreasing ==
    /\ []StrictlyIncreasing(indents)
    /\ [][PopsThenPushes]_vars

\* Three lists are open, one inside the other, after a list line.
C18_Witness ==
    /\ pc \in {"loop", "final", "flush"}
    /\ branch = "list"
    /\ Len(indents) = 3
    /\ indents[1] < indents[3]


\* C19: after every processed line the stack of list indents is non-empty
\* exactly when a list is open (state.inList), also for a list line whose
\* indent is smaller than that of the first item of the list.
C19_StackIffInList ==
    (pc \in {"loop", "final", "flush", "done"}) =>
        (indents # <<>> <=> state.inList)


\* The line l of the output is a list item.
IsItem(l) == Take(Lstrip(l), 4) = <<"<","l","i",">">>

\* More <ul> than </ul> lines stand before position k of out.
UlOpenBefore(out, k) ==
    CountTag(SubSeq(out, 1, k - 1), UlOpen)
        > CountTag(SubSeq(out, 1, k - 1), UlClose)

\* A step processes a list line that finds the stack of indents empty or
\* whose indent is below every entry, so that popping empties the stack.
ItemOnEmptyStack ==
    /\ pc \in {"loop", "final"}
    /\ branch' = "list"
    /\ line'.isList
    /\ indents = <<>> \/ line'.listIndent < indents[1]

\* C20: every list item of the output stands where a <ul> is open (more
\* <ul> than </ul> lines before it), and a list line that finds the stack
\* of indents empty, or empties it by its dedent, pushes its indent and
\* puts out a <ul> before its item.
C20_ItemsInsideUl ==
    /\ [](\A k \in 1..Len(output) :
              IsItem(output[k]) => UlOpenBefore(output, k))
    /\ [][ItemOnEmptyStack =>
              /\ indents' = <<line'.listIndent>>
              /\ \E k \in 1..Len(Appended) :
                     /\ Lstrip(Appended[k]) = UlOpen
                     /\ IsItem(Appended[Len(Appended)])
                     /\ k < Len(Appended)]_vars


\* A step of the first run that handles an input line standing inside an
\* open fenced-code section and being no fence line itself.
HandlesCodeLine ==
    /\ pc \in {"loop", "final"}
    /\ calls = 1
    /\ nextLine # None
    /\ state.inCodeSection
    /\ ~CodeStartMatch(nextLine)
    /\ ~CodeEndMatch(nextLine)

\* C21: in Standard mode every input line between a code: line and the
\* next :code line (or the end of the input) gives exactly one output
\* line, put out when the line is handled: none is dropped or consumed as
\* an underline or a divider, none takes another branch than that of the
\* fenced code.
C21_CodeLinesKept ==
    [][(HandlesCodeLine /\ mode = KIWI_MODE_STD) =>
            /\ branch' = "inCode"
            /\ Len(output') = Len(output) + 1
            /\ output'[Len(output')] = Escape(Drop(nextLine, 4))
            /\ state' = state]_vars


\* A step that classifies and processes an input line (the line is not
\* skipped as a consumed underline or divider).
ProcessesLine ==
    /\ pc \in {"loop", "final"}
    /\ nextLine # None
    /\ ~line.skipNextLine

\* C22: in Org mode, with an org-section open, a processed line that is
\* no org-header first puts out </p> and leaves the org-section closed,
\* whatever kind of line it is; a processed org-header line puts out its
\* own line only, into the container that is open.
C22_OrgSectionClosedByNextLine ==
    [][(ProcessesLine /\ mode = KIWI_MODE_ORG /\ state.inOrgSection) =>
            IF branch' = "orgHeader"
            THEN /\ Len(Appended) = 1
                 /\ Appended[1] \notin {<<"<","p",">">>, <<"<","/","p",">">>}
                 /\ state'.inOrgSection
            ELSE /\ Len(Appended) >= 1
                 /\ Appended[1] = <<"<","/","p",">">>
                 /\ ~state'.inOrgSection]_vars


\* The closing tags of an org-section or paragraph, a list, an item that
\* holds a sub-list, and a table.
ClosingTags ==
    {<<"<","/","p",">">>, <<"<","/","u","l",">">>, <<"<","/","l","i",">">>,
     <<"<","/","t","a","b","l","e",">">>}

\* C23: outside a fenced-code section a processed blank line appends
\* closing tags of an org-section, of lists, of a table and of a paragraph
\* only, and leaves an open indented block as it is: inBlock is unchanged
\* and no </pre> is put out.
C23_BlankLineAddsNoContent ==
    [][(ProcessesLine /\ Strip(nextLine) = <<>> /\ ~state.inCodeSection) =>
            /\ \A n \in 1..Len(Appended) : Lstrip(Appended[n]) \in ClosingTags
            /\ state'.inBlock = state.inBlock]_vars


\* A step of execute() that meets a line marked as consumed.
SkipsLine ==
    /\ pc \in {"loop", "final"}
    /\ nextLine # None
    /\ line.skipNextLine

\* C24: a line marked as consumed is never classified and never put out:
\* the step that meets it leaves the output, the state and the stack of
\* indents alone, and in the loop it clears the flag; the step after a
\* skip in the loop, be it the next iteration or the final flush, always
\* classifies and processes its line, so no two lines in a row are skipped.
C24_NeverTwoSkipped ==
    /\ [][SkipsLine =>
              /\ branch' = "skipped"
              /\ output' = output
              /\ state' = state
              /\ indents' = indents
              /\ (pc = "loop" => ~line'.skipNextLine)]_vars
    /\ [][(pc \in {"loop", "final"} /\ branch = "skipped") =>
              /\ ~line.skipNextLine
              /\ branch' \notin {"skipped", "noLine"}]_vars

\* A divider is skipped and the row after it is processed.
C24_Witness ==
    /\ pc = "done"
    /\ calls = 1
    /\ lines = <<RowLine, DividerLine, RowLine>>
    /\ "skipped" \in seen
    /\ branch = "table"
    /\ CountTag(output, <<"<","t","h",">","a","<","/","t","h",">">>) = 1
    /\ CountTag(output, <<"<","t","d",">","a","<","/","t","d",">">>) = 1
    /\ \A n \in 1..Len(output) : ~Contains(output[n], <<"-","-","-">>)


\* C25: when a line is about to be skipped, the line before it was
\* dispatched as a header or as a table row, never as a list item, as
\* content of an indented block or of fenced code, or as an org-header.
C25_SkipOnlyAfterHeaderOrTable ==
    SkipsLine => branch \in {"header", "table"}


\* C26: the loop reads the input lines one by one and in their order; the
\* line a step handles is the line read by the step before, it is
\* classified with the line just read as its lookahead unless it is marked
\* as consumed, and the final step handles the last line with the empty
\* string as lookahead unless that line is marked as consumed. No line is
\* handled by two steps.
C26_EveryLineOnceInOrder ==
    /\ []((pc \in {"loop", "final"} /\ i >= 1) =>
              /\ i <= Len(lines)
              /\ nextLine = Cleaned(lines[i])
              /\ (pc = "final") = (i = Len(lines)))
    /\ [][pc = "loop" =>
              /\ i' = i + 1
              /\ nextLine' = Cleaned(lines[i + 1])
              /\ pc' = IF i + 1 = Len(lines) THEN "final" ELSE "loop"
              /\ IF i = 0 THEN branch' = "noLine" /\ output' = output
                 ELSE IF line.skipNextLine
                      THEN branch' = "skipped" /\ thisLine' = nextLine
                 ELSE /\ line' = scan(line, nextLine, nextLine', state, mode)
                      /\ branch' \notin {"skipped", "noLine"}]_vars
    /\ [][pc = "final" =>
              /\ i' = i
              /\ pc' = "flush"
              /\ IF line.skipNextLine
                 THEN branch' = "skipped" /\ thisLine' = thisLine
                 ELSE /\ nextLine' = <<>>
                      /\ line' = scan(line, nextLine, <<>>, state, mode)
                      /\ branch' \notin {"skipped", "noLine"}]_vars
    /\ [][pc = "flush" => pc' = "done" /\ i' = i /\ line' = line]_vars

\* Three lines of three kinds, each handled once and in order, none skipped.
C26_Witness ==
    /\ pc = "done"
    /\ calls = 1
    /\ lines = <<ListA, TextLine, RowLine>>
    /\ i = 3
    /\ "skipped" \notin seen
    /\ {"list", "paragraph", "table"} \subseteq seen
    /\ IndexOf(output, <<"<","l","i",">","a","<","/","l","i",">">>) < IndexOf(output, TextLine)
    /\ IndexOf(output, TextLine) < IndexOf(output, <<"<","t","d",">","a","<","/","t","d",">">>)
    /\ CountTag(output, <<"<","l","i",">","a","<","/","l","i",">">>) = 1
    /\ CountTag(output, TextLine) = 1
    /\ CountTag(output, <<"<","t","d",">","a","<","/","t","d",">">>) = 1


\* The number of sections among paragraph, list, table, indented block
\* and fenced code that the state st has open.
OpenSections(st) ==
    Cardinality({f \in {"inParagraph", "inList", "inTable", "inBlock",
                        "inCodeSection"} : st[f]})

\* C27: in Standard mode, after every processed line, at most one of
\* paragraph, list, table, indented block and fenced code is open, and
\* with fenced code open the stack of indents is empty.
C27_OneSectionOpen ==
    (mode = KIWI_MODE_STD /\ pc \in {"loop", "final", "flush", "done"}) =>
        /\ OpenSections(state) <= 1
        /\ (state.inCodeSection => indents = <<>>)


\* A list was open when the code: line came: the list is closed, the
\* stack of indents is empty and the fenced code is the one open section.
C27_Witness ==
    /\ pc = "flush"
    /\ calls = 1
    /\ mode = KIWI_MODE_STD
    /\ lines = <<ListA, CodeStartLine>>
    /\ seen = {"noLine", "list", "codeStart"}
    /\ state.inCodeSection
    /\ OpenSections(state) = 1
    /\ indents = <<>>
    /\ IndexOf(output, UlClose) > 0
    /\ IndexOf(output, UlClose) < IndexOf(output, <<"<","p","r","e",">">>)


\* C28: in Org mode the paragraph and the org-section are never open
\* together, and a processed org-header line leaves no paragraph, table
\* or indented block open next to the org-section it opens.
C28_OrgSectionAlone ==
    /\ [](mode = KIWI_MODE_ORG => ~(state.inParagraph /\ state.inOrgSection))
    /\ [][(ProcessesLine /\ mode = KIWI_MODE_ORG /\ branch' = "orgHeader") =>
              /\ state'.inOrgSection
              /\ ~state'.inParagraph
              /\ ~state'.inTable
              /\ ~state'.inBlock]_vars


\* C29: in Org mode no list is ever open: the state never has inList,
\* the stack of indents is empty, no line takes the list branch, and the
\* output holds no <ul> and no <li>; a processed line that matches the
\* list pattern is dispatched as an org-header.
C29_NoListInOrgMode ==
    /\ [](mode = KIWI_MODE_ORG =>
              /\ ~state.inList
              /\ indents = <<>>
              /\ (pc # "idle" => "list" \notin seen)
              /\ \A n \in 1..Len(output) :
                     /\ ~Contains(output[n], <<"<","u","l",">">>)
                     /\ ~Contains(output[n], <<"<","l","i",">">>))
    /\ [][(ProcessesLine /\ mode = KIWI_MODE_ORG /\ ListMatch(nextLine)) =>
              /\ Lstrip(nextLine)[1] = "*"
              /\ line'.isOrgHeader
              /\ branch' = "orgHeader"]_vars

\* An Org-mode run over two lines of the list pattern, one of them
\* indented: both are org-headers of one org-section.
C29_Witness ==
    /\ pc = "done"
    /\ mode = KIWI_MODE_ORG
    /\ lines = <<ListA, ListB>>
    /\ seen = {"noLine", "orgHeader"}
    /\ output = <<<<"<","p",">">>,
                  ListA \o <<"<","b","r","/",">">>,
                  ListB \o <<"<","b","r","/",">">>,
                  <<"<","/","p",">">>>>

====
